---- MODULE Spec2Model ----
(***************************************************************************)
(* The ledger store of igaming-balance-backend (package storage) and the   *)
(* SQL it runs against PostgreSQL.  Workers (one per RPC call) execute     *)
(* RecordTx, CancelTxs and OpenBalance statement by statement; RecordTx    *)
(* and CancelTxs run inside a database transaction whose writes become     *)
(* visible to the other workers at Commit (read committed) and are         *)
(* discarded by the deferred Rollback.  Amounts are arbitrary-precision    *)
(* decimals in the code (shopspring/decimal, numeric): exact arithmetic,   *)
(* modelled by integers.                                                   *)
(***************************************************************************)
EXTENDS Integers, FiniteSets, Sequences, TLC

\* ------------------------------------------------------------- bounds
\* MaxProcs: the database sessions at a time, each that of a call in progress or
\* of a call that returned without closing it.  MaxCalls, MaxSeqCalls,
\* MaxServiceCalls, MaxRetryCalls, MaxHashCalls, MaxPageCalls: the transactions
\* begun in a behaviour of a specification.  MaxPageTxId: the tx ids of the
\* histories that are read.
MaxProcs == 2
MaxAccount == 2
MaxTxId == 2
MaxAmount == 1
MaxCalls == 2
MaxSeqCalls == 4
MaxServiceCalls == 3
MaxRetryCalls == 3
MaxHashCalls == 3
MaxPageCalls == 3
MaxPageTxId == 3
MaxPageSize == 2
MaxErrText == 2

Procs == 1..MaxProcs
Accounts == 1..MaxAccount
TxIds == 1..MaxTxId
\* Request amounts: the decimal of a request is not range-checked anywhere
\* (the load client draws it from a normal distribution around 0).
Amounts == {-1} \cup (1..MaxAmount)

\* ------------------------------------------------------------- domain
SourceUnknown == 0
SourceGame == 1
SourcePayment == 2
SourceService == 3
StateUnknown == 0
StateDeposit == 1
StateWithdraw == 2

\* Sources and states the requests are drawn from.
Sources == {SourceGame, SourceService}
States == {StateDeposit, StateWithdraw}

ErrNil == "nil"
ErrNotFound == "not found"
ErrAlreadyExists == "already exists"
ErrNegativeBalance == "negative balance"
\* Any error that wraps none of the three sentinels.
ErrOther == "other"

\* deleted_at of a row that is not cancelled.
Null == 0

VARIABLES
    balances,       \* table balances: balance_id -> amount (committed rows)
    txs,            \* table txs: tx_id -> row (committed rows; tx_id is the primary key)
    advisory,       \* advisory locks held: lock key -> worker
    hashtext,       \* the hash that keys the advisory lock: balance_id -> lock key
    pc,             \* each worker's position in its call
    call,           \* each worker's call and arguments
    pgxTx,          \* each worker's database transaction: open flag, start time, uncommitted writes
    balanceChange,  \* each worker's local balanceChange
    err,            \* each worker's return value, set when the call reaches its exit
    calls,          \* database transactions begun so far (the clock behind now())
    lastTx,         \* history, per account: the RecordTx committed last on it (its tx id, the
                    \* balance before it) while no other mutation but the CancelTxs of
                    \* exactly that tx id (reversed) has been committed on the account since
    rpc,            \* each worker's RPC: method and request message
    resp,           \* each worker's RPC response, set when the handler returns
    errText,        \* the content of the error each worker's store call returned
    paging          \* history, per worker: the pages of its ListTx paging session

\* The variables of the store and those of the service in front of it.
storeVars == <<balances, txs, advisory, hashtext, pc, call, pgxTx, balanceChange, err, calls, lastTx>>
serviceVars == <<rpc, resp, errText, paging>>
vars == <<balances, txs, advisory, hashtext, pc, call, pgxTx, balanceChange, err, calls, lastTx,
          rpc, resp, errText, paging>>

Empty == <<>>
NoCall == [op |-> "none"]
NoTx == [open |-> FALSE, now |-> 0, balances |-> Empty, ins |-> Empty, del |-> {}]
NoLast == [tx_id |-> 0, before |-> 0, reversed |-> FALSE]
NoRpc == [method |-> "none"]
NoResp == [code |-> "none"]
NoText == 0
NoPaging == [on |-> FALSE]

\* ------------------------------------------------------------- schema and queries
\* Mutant: the table without its check constraint.
BalancesCheckDropped(amount) == TRUE

\* check (amount >= 0) of table balances.
BalancesCheck(amount) == amount >= 0

\* The primary key of txs: tx_id alone.
TxsPrimaryKey(row) == row.tx_id

\* Mutant: an insert that replaces a row with the same primary key.
InsertTxUpsert(table, row, now) ==
    [code |-> "", row |-> [row EXCEPT !.created_at = now]]

\* -- name: InsertTx: the SQLSTATE (23505 on a row with the same primary key) and
\* the row stored, created_at defaulting to now().
InsertTx(table, row, now) ==
    IF \E t \in DOMAIN table : TxsPrimaryKey(table[t]) = TxsPrimaryKey(row)
    THEN [code |-> "23505", row |-> row]
    ELSE [code |-> "", row |-> [row EXCEPT !.created_at = now]]

\* Mutant: the insert resets the amount of a row that exists.
InsertBalanceReset(table, balance_id) ==
    IF balance_id \in DOMAIN table
    THEN [code |-> "", table |-> [table EXCEPT ![balance_id] = 0]]
    ELSE [code |-> "", table |-> (balance_id :> 0) @@ table]

\* -- name: OpenBalance: the SQLSTATE (23505 on a row with the same primary key)
\* and the table after the insert of a row with amount 0.
InsertBalance(table, balance_id) ==
    IF balance_id \in DOMAIN table
    THEN [code |-> "23505", table |-> table]
    ELSE [code |-> "", table |-> (balance_id :> 0) @@ table]

\* Mutant: the update applied without evaluating the check constraint.
UpdateBalanceUnchecked(table, balance_id, amount) ==
    IF balance_id \notin DOMAIN table
    THEN [rows |-> 0, code |-> "", table |-> table]
    ELSE [rows |-> 1, code |-> "",
          table |-> [table EXCEPT ![balance_id] = table[balance_id] + amount]]

\* -- name: UpdateBalance: the table after the update, the rows affected, the SQLSTATE.
UpdateBalance(table, balance_id, amount) ==
    IF balance_id \notin DOMAIN table
    THEN [rows |-> 0, code |-> "", table |-> table]
    ELSE IF ~BalancesCheck(table[balance_id] + amount)
    THEN [rows |-> 0, code |-> "23514", table |-> table]
    ELSE [rows |-> 1, code |-> "",
          table |-> [table EXCEPT ![balance_id] = table[balance_id] + amount]]

\* Mutant: the rows are selected by tx id alone.
TxsByIDAnyBalance(table, balance_id, tx_ids) ==
    {t \in DOMAIN table : t \in tx_ids}

\* -- name: TxsByID: the ids of the rows selected.
TxsByID(table, balance_id, tx_ids) ==
    {t \in DOMAIN table : table[t].balance_id = balance_id /\ t \in tx_ids}

\* Mutant: the rows are updated whether cancelled or not.
DeleteTxsAll(table, balance_id, tx_ids) ==
    {t \in DOMAIN table : table[t].balance_id = balance_id /\ t \in tx_ids}

\* Mutant: the rows are updated whatever their account.
DeleteTxsAnyBalance(table, balance_id, tx_ids) ==
    {t \in DOMAIN table : t \in tx_ids /\ table[t].deleted_at = Null}

\* -- name: DeleteTxs: the ids of the rows updated.
DeleteTxs(table, balance_id, tx_ids) ==
    {t \in DOMAIN table :
        /\ table[t].balance_id = balance_id
        /\ t \in tx_ids
        /\ table[t].deleted_at = Null}

\* Mutant: the source of the request is not carried over.
TxToPgxNoSource(tx) ==
    [tx_id |-> tx.tx_id, balance_id |-> tx.balance_id, source |-> SourceGame,
     state |-> tx.state, amount |-> tx.amount, created_at |-> Null, deleted_at |-> Null]

\* Mutant: the two ids of the request are swapped.
TxToPgxSwappedIds(tx) ==
    [tx_id |-> tx.balance_id, balance_id |-> tx.tx_id, source |-> tx.source,
     state |-> tx.state, amount |-> tx.amount, created_at |-> Null, deleted_at |-> Null]

\* transform.TxToPgx; created_at and deleted_at are not parameters of InsertTx.
TxToPgx(tx) ==
    [tx_id |-> tx.tx_id, balance_id |-> tx.balance_id, source |-> tx.source,
     state |-> tx.state, amount |-> tx.amount, created_at |-> Null, deleted_at |-> Null]

\* Mutant: the amount of a withdrawal is not negated.
RecordChangeNoNeg(tx) == tx.amount

\* balanceChange of RecordTx.
RecordChange(tx) ==
    IF tx.state = StateWithdraw THEN 0 - tx.amount ELSE tx.amount

\* Mutant: the two cases of the loop swapped.
CancelStepSwapped(change, row) ==
    IF row.state = StateDeposit THEN change + row.amount ELSE change - row.amount

\* One iteration of CancelTxs's loop over the fetched rows.
CancelStep(change, row) ==
    IF row.state = StateDeposit THEN change - row.amount ELSE change + row.amount

\* balanceChange of CancelTxs: the loop over the rows TxsByID returned.
RECURSIVE CancelChange(_, _)
CancelChange(table, ids) ==
    IF ids = {} THEN 0
    ELSE LET t == CHOOSE x \in ids : TRUE
         IN  CancelStep(CancelChange(table, ids \ {t}), table[t])

\* Mutant: an update of no row is taken for a duplicate.
UpdateErrNoRows(res) ==
    IF res.code = "23514" THEN ErrNegativeBalance
    ELSE IF res.code # "" THEN ErrOther
    ELSE IF res.rows = 0 THEN ErrAlreadyExists
    ELSE ErrNil

\* Mutant: the check violation is taken for a missing row.
UpdateErrNoCheckCode(res) ==
    IF res.code = "23514" THEN ErrNotFound
    ELSE IF res.code # "" THEN ErrOther
    ELSE IF res.rows = 0 THEN ErrNotFound
    ELSE ErrNil

\* isPgCode classification of UpdateBalance's outcome in RecordTx and CancelTxs.
UpdateErr(res) ==
    IF res.code = "23514" THEN ErrNegativeBalance
    ELSE IF res.code # "" THEN ErrOther
    ELSE IF res.rows = 0 THEN ErrNotFound
    ELSE ErrNil

\* Mutant: the unique violation is taken for a missing row.
InsertErrNotFound(res) ==
    IF res.code = "23505" THEN ErrNotFound
    ELSE IF res.code # "" THEN ErrOther
    ELSE ErrNil

\* isPgCode classification of an insert's outcome in RecordTx and OpenBalance.
InsertErr(res) ==
    IF res.code = "23505" THEN ErrAlreadyExists
    ELSE IF res.code # "" THEN ErrOther
    ELSE ErrNil

\* ------------------------------------------------------------- reads
\* order by tx_id desc.
RECURSIVE OrderDesc(_)
OrderDesc(ids) ==
    IF ids = {} THEN <<>>
    ELSE LET m == CHOOSE x \in ids : \A y \in ids : y <= x
         IN  <<m>> \o OrderDesc(ids \ {m})

\* limit n: an error (2201W) on a negative n.
Limit(rows, n) == SubSeq(rows, 1, IF n < Len(rows) THEN n ELSE Len(rows))

\* The rows of the ids, in their order.
RowsOf(table, ids) == [i \in 1..Len(ids) |-> table[ids[i]]]

\* -- name: RecentTxs: the SQLSTATE and the rows selected.
RecentTxs(table, balance_id, include_deleted, limit) ==
    IF limit < 0 THEN [code |-> "2201W", rows |-> <<>>]
    ELSE [code |-> "",
          rows |-> RowsOf(table, Limit(OrderDesc({t \in DOMAIN table :
                        /\ table[t].balance_id = balance_id
                        /\ (table[t].deleted_at = Null \/ include_deleted)}), limit))]

\* Mutant: the keyset bound includes the row of tx_id.
PreviousTxsInclusive(table, balance_id, include_deleted, tx_id, limit) ==
    IF limit < 0 THEN [code |-> "2201W", rows |-> <<>>]
    ELSE [code |-> "",
          rows |-> RowsOf(table, Limit(OrderDesc({t \in DOMAIN table :
                        /\ table[t].balance_id = balance_id
                        /\ t <= tx_id
                        /\ (table[t].deleted_at = Null \/ include_deleted)}), limit))]

\* -- name: PreviousTxs: the SQLSTATE and the rows selected.
PreviousTxs(table, balance_id, include_deleted, tx_id, limit) ==
    IF limit < 0 THEN [code |-> "2201W", rows |-> <<>>]
    ELSE [code |-> "",
          rows |-> RowsOf(table, Limit(OrderDesc({t \in DOMAIN table :
                        /\ table[t].balance_id = balance_id
                        /\ t < tx_id
                        /\ (table[t].deleted_at = Null \/ include_deleted)}), limit))]

\* -- name: Balance: the rows selected (none or one).
Balance(table, balance_id) ==
    IF balance_id \in DOMAIN table
    THEN <<[balance_id |-> balance_id, amount |-> table[balance_id]]>>
    ELSE <<>>

\* transform.TxFromPgx.
TxFromPgx(row) ==
    [created_at |-> row.created_at, deleted_at |-> row.deleted_at, tx_id |-> row.tx_id,
     balance_id |-> row.balance_id, source |-> row.source, state |-> row.state,
     amount |-> row.amount]

\* transform.BalanceFromPgx.
BalanceFromPgx(row) == [balance_id |-> row.balance_id, amount |-> row.amount]

\* ------------------------------------------------------------- wire format
\* Strings of the request and response messages: the text of a uuid (n its id),
\* the text of a decimal (n its value), the empty string, and the text abc, which
\* is neither (n its length).
EmptyString == [kind |-> "empty", n |-> 0]
OtherString == [kind |-> "text", n |-> 3]

\* The characters of a string that is no uuid and no decimal.
Text(str) == IF str.kind = "empty" THEN "" ELSE "abc"

\* uuid.UUID.String.
UuidString(id) == [kind |-> "uuid", n |-> id]

\* uuid.Parse: the id, or the error that names the length of the text.
UuidParse(str) ==
    IF str.kind = "uuid" THEN [ok |-> TRUE, value |-> str.n, err |-> ""]
    ELSE [ok |-> FALSE, value |-> 0, err |-> "invalid UUID length: " \o ToString(str.n)]

\* decimal.Decimal.String.
DecimalString(d) == [kind |-> "decimal", n |-> d]

\* decimal.NewFromString: the value, or the error that quotes the text.
NewFromString(str) ==
    IF str.kind = "decimal" THEN [ok |-> TRUE, value |-> str.n, err |-> ""]
    ELSE [ok |-> FALSE, value |-> 0, err |-> "can't convert " \o Text(str) \o " to decimal"]

\* transform.TxFromProto: the checks in their order, each error wrapping the one
\* of the parse that failed; reading the value of an amount the request does not
\* carry dereferences nil.
TxFromProto(req) ==
    LET none == [balance_id |-> 0, tx_id |-> 0, source |-> 0, state |-> 0, amount |-> 0]
    IN  IF req.source = SourceUnknown
        THEN [err |-> "invalid source: source is unspecified", panic |-> FALSE, tx |-> none]
        ELSE IF req.state = StateUnknown
        THEN [err |-> "invalid state: state is unspecified", panic |-> FALSE, tx |-> none]
        ELSE IF ~UuidParse(req.balance_id).ok
        THEN [err |-> "invalid balance id: " \o UuidParse(req.balance_id).err, panic |-> FALSE, tx |-> none]
        ELSE IF ~UuidParse(req.tx_id).ok
        THEN [err |-> "invalid tx id: " \o UuidParse(req.tx_id).err, panic |-> FALSE, tx |-> none]
        ELSE IF ~req.amount.present
        THEN [err |-> "", panic |-> TRUE, tx |-> none]
        ELSE IF ~NewFromString(req.amount.value).ok
        THEN [err |-> "invalid amount: " \o NewFromString(req.amount.value).err, panic |-> FALSE, tx |-> none]
        ELSE [err |-> "", panic |-> FALSE,
              tx |-> [tx_id |-> UuidParse(req.tx_id).value,
                      balance_id |-> UuidParse(req.balance_id).value,
                      source |-> req.source, state |-> req.state,
                      amount |-> NewFromString(req.amount.value).value]]

\* transform.TxToProto.
TxToProto(tx) ==
    [created_at |-> tx.created_at, deleted_at |-> tx.deleted_at,
     tx_id |-> UuidString(tx.tx_id), balance_id |-> UuidString(tx.balance_id),
     source |-> tx.source, state |-> tx.state, amount |-> DecimalString(tx.amount)]

\* transform.BalanceToProto.
BalanceToProto(b) ==
    [balance_id |-> UuidString(b.balance_id), amount |-> DecimalString(b.amount)]

\* ------------------------------------------------------------- service
CodeOK == "ok"
CodeInvalidArgument == "invalid_argument"
CodeNotFound == "not_found"
CodeAlreadyExists == "already_exists"
CodeInternal == "internal"
\* A handler that panicked: the server drops the request without a response.
Aborted == "aborted"

\* What a reply carries: a code, a message, and what it shows of the store's error.

\* Mutant: the store's error is passed on to the caller.
RecordTxReplyLeak(e, text) ==
    IF e = ErrNil THEN [code |-> CodeOK, msg |-> "", cause |-> NoText]
    ELSE IF e = ErrNotFound THEN [code |-> CodeNotFound, msg |-> "balance not found", cause |-> NoText]
    ELSE IF e = ErrAlreadyExists
    THEN [code |-> CodeAlreadyExists, msg |-> "transaction already exists", cause |-> NoText]
    ELSE IF e = ErrNegativeBalance
    THEN [code |-> CodeInvalidArgument, msg |-> "negative balance", cause |-> NoText]
    ELSE [code |-> CodeInternal, msg |-> "failed to record transaction", cause |-> text]

\* service RecordTx: the reply to the store's outcome.
RecordTxReply(e, text) ==
    IF e = ErrNil THEN [code |-> CodeOK, msg |-> "", cause |-> NoText]
    ELSE IF e = ErrNotFound THEN [code |-> CodeNotFound, msg |-> "balance not found", cause |-> NoText]
    ELSE IF e = ErrAlreadyExists
    THEN [code |-> CodeAlreadyExists, msg |-> "transaction already exists", cause |-> NoText]
    ELSE IF e = ErrNegativeBalance
    THEN [code |-> CodeInvalidArgument, msg |-> "negative balance", cause |-> NoText]
    ELSE [code |-> CodeInternal, msg |-> "failed to record transaction", cause |-> NoText]

\* Mutant: a negative balance is reported as an internal failure.
CancelTxsReplyNoNegative(e, text) ==
    IF e = ErrNil THEN [code |-> CodeOK, msg |-> "", cause |-> NoText]
    ELSE IF e = ErrNotFound THEN [code |-> CodeNotFound, msg |-> "transactions not found", cause |-> NoText]
    ELSE [code |-> CodeInternal, msg |-> "failed to cancel transactions", cause |-> NoText]

\* service CancelTxs: the reply to the store's outcome.
CancelTxsReply(e, text) ==
    IF e = ErrNil THEN [code |-> CodeOK, msg |-> "", cause |-> NoText]
    ELSE IF e = ErrNotFound THEN [code |-> CodeNotFound, msg |-> "transactions not found", cause |-> NoText]
    ELSE IF e = ErrNegativeBalance
    THEN [code |-> CodeInvalidArgument, msg |-> "negative balance", cause |-> NoText]
    ELSE [code |-> CodeInternal, msg |-> "failed to cancel transactions", cause |-> NoText]

\* service OpenBalance: the reply to the store's outcome.
OpenBalanceReply(e, text) ==
    IF e = ErrNil THEN [code |-> CodeOK, msg |-> "", cause |-> NoText]
    ELSE IF e = ErrAlreadyExists
    THEN [code |-> CodeAlreadyExists, msg |-> "balance already open", cause |-> NoText]
    ELSE [code |-> CodeInternal, msg |-> "failed to open balance", cause |-> NoText]

\* service Balance: the reply to the store's outcome.
BalanceReply(e, text) ==
    IF e = ErrNil THEN [code |-> CodeOK, msg |-> "", cause |-> NoText]
    ELSE IF e = ErrNotFound THEN [code |-> CodeNotFound, msg |-> "balance not found", cause |-> NoText]
    ELSE [code |-> CodeInternal, msg |-> "failed to get balance", cause |-> NoText]

\* service ListTx: the reply to the store's outcome.
ListTxReply(e, text) ==
    IF e = ErrNil THEN [code |-> CodeOK, msg |-> "", cause |-> NoText]
    ELSE [code |-> CodeInternal, msg |-> "failed to get transactions", cause |-> NoText]

\* The reply of the handler of a store call to the store's outcome.
Reply(op, e, text) ==
    IF op = "RecordTx" THEN RecordTxReply(e, text)
    ELSE IF op = "CancelTxs" THEN CancelTxsReply(e, text)
    ELSE IF op = "OpenBalance" THEN OpenBalanceReply(e, text)
    ELSE IF op = "Balance" THEN BalanceReply(e, text)
    ELSE ListTxReply(e, text)

\* Mutant: the token is the id of the first item of the page.
NextPageTokenFirst(protoTxs) ==
    IF Len(protoTxs) = 0 THEN EmptyString ELSE protoTxs[1].tx_id

\* service ListTx: the next_page_token of a response.
NextPageToken(protoTxs) ==
    IF Len(protoTxs) = 0 THEN EmptyString ELSE protoTxs[Len(protoTxs)].tx_id

\* ------------------------------------------------------------- transactions
\* The tx ids other open transactions have inserted and not yet committed.
PendingInserts(p) ==
    UNION {DOMAIN pgxTx[q].ins : q \in Procs \ {p}}

\* The balance rows other open transactions have updated and not yet committed.
PendingUpdates(p) ==
    UNION {DOMAIN pgxTx[q].balances : q \in Procs \ {p}}

\* The tx rows other open transactions have marked and not yet committed.
PendingDeletes(p) ==
    UNION {pgxTx[q].del : q \in Procs \ {p}}

\* pgxTx.Commit: the tables with the transaction's writes applied.
CommitBalances(table, tx) ==
    [b \in DOMAIN table |-> IF b \in DOMAIN tx.balances THEN tx.balances[b] ELSE table[b]]

\* Mutant: the commit removes the rows it should mark.
CommitTxsPurge(table, tx) ==
    [t \in (DOMAIN table \cup DOMAIN tx.ins) \ tx.del |->
        IF t \in DOMAIN tx.ins THEN tx.ins[t] ELSE table[t]]

CommitTxs(table, tx) ==
    [t \in DOMAIN table \cup DOMAIN tx.ins |->
        IF t \in DOMAIN tx.ins THEN tx.ins[t]
        ELSE IF t \in tx.del THEN [table[t] EXCEPT !.deleted_at = tx.now]
        ELSE table[t]]

\* Mutant: the balance update survives the rollback, as if it ran outside the transaction.
RollbackBalancesKept(table, tx) == CommitBalances(table, tx)

\* pgxTx.Rollback: the tables after the transaction's writes are discarded.
RollbackBalances(table, tx) == table

RollbackTxs(table, tx) == table

\* Mutant: the lock is granted without waiting for its holder.
LockFreeAlways(locks, k) == TRUE

\* pg_advisory_xact_lock is granted when no other session holds the key.
LockFree(locks, k) == k \notin DOMAIN locks

\* Mutant: one lock key for every account.
LockKeyGlobal(h, balance_id) == 1

\* hashtext($1::text): the advisory lock key of an account.
LockKey(h, balance_id) == h[balance_id]

\* Mutant: the end of a transaction drops the locks of every session.
ReleaseAll(locks, p) == Empty

\* Locks released at the end of a worker's transaction.
Release(locks, p) ==
    [k \in {k \in DOMAIN locks : locks[k] # p} |-> locks[k]]

\* ------------------------------------------------------------- Init
Init ==
    /\ balances = Empty
    /\ txs = Empty
    /\ advisory = Empty
    /\ hashtext \in {[b \in Accounts |-> b]}
    /\ pc = [p \in Procs |-> "idle"]
    /\ call = [p \in Procs |-> NoCall]
    /\ pgxTx = [p \in Procs |-> NoTx]
    /\ balanceChange = [p \in Procs |-> 0]
    /\ err = [p \in Procs |-> ErrNil]
    /\ calls = 0
    /\ lastTx = [b \in Accounts |-> NoLast]
    /\ rpc = [p \in Procs |-> NoRpc]
    /\ resp = [p \in Procs |-> NoResp]
    /\ errText = [p \in Procs |-> NoText]
    /\ paging = [p \in Procs |-> NoPaging]

\* The deposit the first transaction of a ledger in service recorded.
FirstTx ==
    [tx_id |-> 1, balance_id |-> 1, source |-> SourceGame, state |-> StateDeposit,
     amount |-> MaxAmount]

\* A ledger in service: the state Init comes to by OpenBalance of account 1 and
\* the RecordTx of FirstTx, both returned.  hashtext maps the account ids (uuids
\* as text) to 32-bit keys: two accounts may share a key.
HashInit ==
    /\ balances = UpdateBalance(InsertBalance(Empty, FirstTx.balance_id).table,
                                FirstTx.balance_id, RecordChange(FirstTx)).table
    /\ txs = (FirstTx.tx_id :> InsertTx(Empty, TxToPgx(FirstTx), 1).row)
    /\ advisory = Empty
    /\ hashtext \in {[b \in Accounts |-> b], [b \in Accounts |-> 1]}
    /\ pc = [p \in Procs |-> "idle"]
    /\ call = [p \in Procs |-> NoCall]
    /\ pgxTx = [p \in Procs |-> NoTx]
    /\ balanceChange = [p \in Procs |-> 0]
    /\ err = [p \in Procs |-> ErrNil]
    /\ calls = 1
    /\ lastTx = [b \in Accounts |->
                    IF b = FirstTx.balance_id
                    THEN [tx_id |-> FirstTx.tx_id, before |-> 0, reversed |-> FALSE]
                    ELSE NoLast]
    /\ rpc = [p \in Procs |-> NoRpc]
    /\ resp = [p \in Procs |-> NoResp]
    /\ errText = [p \in Procs |-> NoText]
    /\ paging = [p \in Procs |-> NoPaging]

\* ------------------------------------------------------------- OpenBalance
\* Balances.OpenBalance: one autocommitted insert, or its failure with an error that
\* is not classified: the statement did not run, or it ran and its reply did not
\* reach the client.  The insert waits for an open transaction that has updated
\* the row of the account; the step is the call from its start to its return.
OpenBalance(p, balance_id) ==
    /\ pc[p] = "idle"
    /\ call' = [call EXCEPT ![p] = [op |-> "OpenBalance", balance_id |-> balance_id]]
    /\ pc' = [pc EXCEPT ![p] = "exit"]
    /\ LET res == InsertBalance(balances, balance_id)
       IN  \/ /\ balance_id \notin PendingUpdates(p)
              /\ err' = [err EXCEPT ![p] = InsertErr(res)]
              /\ balances' = res.table
           \/ /\ err' = [err EXCEPT ![p] = ErrOther]
              /\ UNCHANGED balances
           \/ /\ err' = [err EXCEPT ![p] = ErrOther]
              /\ res.code = ""
              /\ balances' = res.table
    /\ UNCHANGED <<txs, advisory, hashtext, pgxTx, balanceChange, calls, lastTx>>

\* ------------------------------------------------------------- RecordTx
\* RecordTx up to and including Begin: a transaction is opened, or Begin fails and
\* the call returns an error that is not classified, with no transaction and
\* before the Rollback is deferred.
RecordTxBegin(p, tx, budget) ==
    /\ pc[p] = "idle"
    /\ calls < budget
    /\ call' = [call EXCEPT ![p] = [op |-> "RecordTx", balance_id |-> tx.balance_id, tx |-> tx]]
    /\ balanceChange' = [balanceChange EXCEPT ![p] = RecordChange(tx)]
    /\ \/ /\ calls' = calls + 1
          /\ pgxTx' = [pgxTx EXCEPT ![p] = [NoTx EXCEPT !.open = TRUE, !.now = calls + 1]]
          /\ pc' = [pc EXCEPT ![p] = "lock"]
          /\ UNCHANGED err
       \/ /\ err' = [err EXCEPT ![p] = ErrOther]
          /\ pc' = [pc EXCEPT ![p] = "exit"]
          /\ UNCHANGED <<calls, pgxTx>>
    /\ UNCHANGED <<balances, txs, advisory, hashtext, lastTx>>

\* CancelTxs up to and including Begin: a transaction is opened, or Begin fails and
\* the call returns an error that is not classified, with no transaction and
\* before the Rollback is deferred.
CancelTxsBegin(p, balance_id, tx_ids, budget) ==
    /\ pc[p] = "idle"
    /\ calls < budget
    /\ call' = [call EXCEPT ![p] = [op |-> "CancelTxs", balance_id |-> balance_id, tx_ids |-> tx_ids]]
    /\ balanceChange' = [balanceChange EXCEPT ![p] = 0]
    /\ \/ /\ calls' = calls + 1
          /\ pgxTx' = [pgxTx EXCEPT ![p] = [NoTx EXCEPT !.open = TRUE, !.now = calls + 1]]
          /\ pc' = [pc EXCEPT ![p] = "lock"]
          /\ UNCHANGED err
       \/ /\ err' = [err EXCEPT ![p] = ErrOther]
          /\ pc' = [pc EXCEPT ![p] = "exit"]
          /\ UNCHANGED <<calls, pgxTx>>
    /\ UNCHANGED <<balances, txs, advisory, hashtext, lastTx>>

\* Mutant: the call goes on to its statements without taking the lock.
LockBalanceSkipped(p) ==
    /\ pc[p] = "lock"
    /\ pc' = [pc EXCEPT ![p] = IF call[p].op = "RecordTx" THEN "update" ELSE "fetch"]
    /\ UNCHANGED <<balances, txs, advisory, hashtext, call, pgxTx, balanceChange, err, calls,
                   lastTx>>

\* -- name: LockBalance: pg_advisory_xact_lock waits until the key is free.
LockBalance(p) ==
    /\ pc[p] = "lock"
    /\ LET k == LockKey(hashtext, call[p].balance_id)
       IN  /\ LockFree(advisory, k)
           /\ advisory' = (k :> p) @@ advisory
    /\ pc' = [pc EXCEPT ![p] = IF call[p].op = "RecordTx" THEN "update" ELSE "fetch"]
    /\ UNCHANGED <<balances, txs, hashtext, call, pgxTx, balanceChange, err, calls, lastTx>>

\* CancelTxs: TxsByID and the loop that sums the reversing delta.
CancelTxsFetch(p) ==
    /\ pc[p] = "fetch"
    /\ LET ids == TxsByID(txs, call[p].balance_id, call[p].tx_ids)
       IN  IF ids = {}
           THEN /\ err' = [err EXCEPT ![p] = ErrNotFound]
                /\ pc' = [pc EXCEPT ![p] = "exit"]
                /\ UNCHANGED balanceChange
           ELSE IF \E t \in ids : txs[t].state \notin {StateDeposit, StateWithdraw}
           THEN /\ err' = [err EXCEPT ![p] = ErrOther]
                /\ pc' = [pc EXCEPT ![p] = "exit"]
                /\ UNCHANGED balanceChange
           ELSE /\ balanceChange' = [balanceChange EXCEPT ![p] = CancelChange(txs, ids)]
                /\ pc' = [pc EXCEPT ![p] = "reverse"]
                /\ UNCHANGED err
    /\ UNCHANGED <<balances, txs, advisory, hashtext, call, pgxTx, calls, lastTx>>

\* The UpdateBalance statement of RecordTx and of CancelTxs and the checks after it.
\* The update waits for a row another open transaction has updated.
UpdateBalanceStmt(p, at, next) ==
    /\ pc[p] = at
    /\ call[p].balance_id \notin PendingUpdates(p)
    /\ LET res == UpdateBalance(balances, call[p].balance_id, balanceChange[p])
           e == UpdateErr(res)
       IN  IF e # ErrNil
           THEN /\ err' = [err EXCEPT ![p] = e]
                /\ pc' = [pc EXCEPT ![p] = "exit"]
                /\ UNCHANGED pgxTx
           ELSE /\ pgxTx' = [pgxTx EXCEPT ![p].balances =
                        (call[p].balance_id :> res.table[call[p].balance_id])]
                /\ pc' = [pc EXCEPT ![p] = next]
                /\ UNCHANGED err
    /\ UNCHANGED <<balances, txs, advisory, hashtext, call, balanceChange, calls, lastTx>>

RecordTxUpdate(p) ==
    /\ call[p].op = "RecordTx"
    /\ UpdateBalanceStmt(p, "update", "insert")

CancelTxsUpdate(p) ==
    /\ call[p].op = "CancelTxs"
    /\ UpdateBalanceStmt(p, "reverse", "delete")

\* -- name: InsertTx in RecordTx: a unique violation (23505) on a committed row
\* with the same primary key.  The unique check waits for the open transaction
\* that has inserted a row with that key, and for the one that has updated the
\* committed row with that key (the mark of a DeleteTxs): it answers when that
\* transaction has ended.
RecordTxInsert(p) ==
    /\ pc[p] = "insert"
    /\ LET dbTx == TxToPgx(call[p].tx)
           res == InsertTx(txs, dbTx, pgxTx[p].now)
       IN  /\ TxsPrimaryKey(dbTx) \notin PendingInserts(p) \cup PendingDeletes(p)
           /\ IF res.code # ""
              THEN /\ err' = [err EXCEPT ![p] = InsertErr(res)]
                   /\ pc' = [pc EXCEPT ![p] = "exit"]
                   /\ UNCHANGED pgxTx
              ELSE /\ pgxTx' = [pgxTx EXCEPT ![p].ins = (res.row.tx_id :> res.row)]
                   /\ pc' = [pc EXCEPT ![p] = "commit"]
                   /\ UNCHANGED err
    /\ UNCHANGED <<balances, txs, advisory, hashtext, call, balanceChange, calls, lastTx>>

\* -- name: DeleteTxs in CancelTxs: the number of rows updated is dropped.  The
\* update waits for a row another open transaction has updated.
CancelTxsDelete(p) ==
    /\ pc[p] = "delete"
    /\ DeleteTxs(txs, call[p].balance_id, call[p].tx_ids) \cap PendingDeletes(p) = {}
    /\ pgxTx' = [pgxTx EXCEPT ![p].del = DeleteTxs(txs, call[p].balance_id, call[p].tx_ids)]
    /\ pc' = [pc EXCEPT ![p] = "commit"]
    /\ UNCHANGED <<balances, txs, advisory, hashtext, call, balanceChange, err, calls, lastTx>>

\* pgxTx.Commit, the server commits: the writes become visible, the locks are
\* released.  Commit returns nil, or an error that is not classified when the
\* server's reply does not reach the client; the transaction is closed either way.
Commit(p) ==
    /\ pc[p] = "commit"
    /\ balances' = CommitBalances(balances, pgxTx[p])
    /\ txs' = CommitTxs(txs, pgxTx[p])
    /\ advisory' = Release(advisory, p)
    /\ pgxTx' = [pgxTx EXCEPT ![p] = [NoTx EXCEPT !.now = pgxTx[p].now]]
    /\ \E e \in {ErrNil, ErrOther} : err' = [err EXCEPT ![p] = e]
    /\ pc' = [pc EXCEPT ![p] = "exit"]
    /\ lastTx' = [lastTx EXCEPT ![call[p].balance_id] =
            IF call[p].op = "RecordTx"
            THEN [tx_id |-> call[p].tx.tx_id, before |-> balances[call[p].balance_id],
                  reversed |-> FALSE]
            ELSE IF ~@.reversed /\ call[p].tx_ids = {@.tx_id}
            THEN [@ EXCEPT !.reversed = TRUE]
            ELSE NoLast]
    /\ UNCHANGED <<hashtext, call, balanceChange, calls>>

\* A statement of an open transaction fails, or its Commit fails before the server
\* has committed, with an error that is none of the classified ones: the
\* connection breaks, the caller's context ends.
Fail(p) ==
    /\ pc[p] \in {"lock", "update", "insert", "fetch", "reverse", "delete", "commit"}
    /\ err' = [err EXCEPT ![p] = ErrOther]
    /\ pc' = [pc EXCEPT ![p] = "exit"]
    /\ UNCHANGED <<balances, txs, advisory, hashtext, call, pgxTx, balanceChange, calls, lastTx>>

\* Mutant: the function returns without the deferred Rollback: the transaction of
\* a failed call stays open on its connection.
ExitLeaked(p) ==
    /\ pc[p] = "exit"
    /\ call' = [call EXCEPT ![p] = NoCall]
    /\ balanceChange' = [balanceChange EXCEPT ![p] = 0]
    /\ err' = [err EXCEPT ![p] = ErrNil]
    /\ pc' = [pc EXCEPT ![p] = "idle"]
    /\ UNCHANGED <<balances, txs, advisory, pgxTx, hashtext, calls, lastTx>>

\* The function exit: the deferred Rollback, then the return of err.  The Rollback
\* is a no-op on a closed transaction and where none was opened.  On an open
\* transaction it either rolls back, or fails (it runs with the caller's context
\* and on the call's connection): the failure is logged, the function returns, and
\* the session stays on the server with its writes and its locks (pc "orphaned",
\* call and pgxTx those of the call that has returned) until the server ends it.
Exit(p) ==
    /\ pc[p] = "exit"
    /\ \/ /\ balances' = (IF pgxTx[p].open THEN RollbackBalances(balances, pgxTx[p])
                          ELSE balances)
          /\ txs' = (IF pgxTx[p].open THEN RollbackTxs(txs, pgxTx[p]) ELSE txs)
          /\ advisory' = Release(advisory, p)
          /\ pgxTx' = [pgxTx EXCEPT ![p] = NoTx]
          /\ call' = [call EXCEPT ![p] = NoCall]
          /\ pc' = [pc EXCEPT ![p] = "idle"]
       \/ /\ pgxTx[p].open
          /\ pc' = [pc EXCEPT ![p] = "orphaned"]
          /\ UNCHANGED <<balances, txs, advisory, pgxTx, call>>
    /\ balanceChange' = [balanceChange EXCEPT ![p] = 0]
    /\ err' = [err EXCEPT ![p] = ErrNil]
    /\ UNCHANGED <<hashtext, calls, lastTx>>

\* The server ends the session of a connection the client has dropped: the open
\* transaction is aborted, its locks are released.
Abort(p) ==
    /\ pc[p] = "orphaned"
    /\ balances' = RollbackBalances(balances, pgxTx[p])
    /\ txs' = RollbackTxs(txs, pgxTx[p])
    /\ advisory' = Release(advisory, p)
    /\ pgxTx' = [pgxTx EXCEPT ![p] = NoTx]
    /\ call' = [call EXCEPT ![p] = NoCall]
    /\ pc' = [pc EXCEPT ![p] = "idle"]
    /\ UNCHANGED <<hashtext, balanceChange, err, calls, lastTx>>

TxInputs ==
    [tx_id : TxIds, balance_id : Accounts, source : Sources, state : States, amount : Amounts]

\* One step of worker p, a slot for one database session and the call that uses
\* it; no RecordTx or CancelTxs starts once budget transactions have begun, the
\* RecordTx calls are drawn from inputs.
WorkerOn(p, budget, inputs) ==
    \/ \E b \in Accounts : OpenBalance(p, b)
    \/ \E tx \in inputs : RecordTxBegin(p, tx, budget)
    \/ \E b \in Accounts : \E ids \in (SUBSET TxIds) \ {{}} : CancelTxsBegin(p, b, ids, budget)
    \/ LockBalance(p)
    \/ RecordTxUpdate(p)
    \/ RecordTxInsert(p)
    \/ CancelTxsFetch(p)
    \/ CancelTxsUpdate(p)
    \/ CancelTxsDelete(p)
    \/ Commit(p)
    \/ Fail(p)
    \/ Exit(p)
    \/ Abort(p)

\* One step of worker p, any RecordTx input.
Worker(p, budget) == WorkerOn(p, budget, TxInputs)

\* ------------------------------------------------------------- RPC handlers
ErrTexts == 1..MaxErrText
PageSizes == (0 - 1)..MaxPageSize
\* The tx ids of the histories that are read.
PageTxIds == 1..MaxPageTxId

\* Request messages: the well-formed ones, and ones with one field malformed.
RecordTxRequestOf(tx) ==
    [balance_id |-> UuidString(tx.balance_id), tx_id |-> UuidString(tx.tx_id),
     source |-> tx.source, state |-> tx.state,
     amount |-> [present |-> TRUE, value |-> DecimalString(tx.amount)]]

MalformedRecordTxRequests ==
    UNION {{[r EXCEPT !.source = SourceUnknown],
            [r EXCEPT !.state = StateUnknown],
            [r EXCEPT !.balance_id = OtherString],
            [r EXCEPT !.tx_id = EmptyString],
            [r EXCEPT !.amount = [present |-> TRUE, value |-> OtherString]],
            [r EXCEPT !.amount = [present |-> FALSE, value |-> EmptyString]]} :
           r \in {RecordTxRequestOf(tx) : tx \in {t \in TxInputs :
                    t.tx_id = 1 /\ t.balance_id = 1 /\ t.source = SourceGame /\ t.amount = 1}}}

RecordTxRequests(inputs) ==
    {RecordTxRequestOf(tx) : tx \in inputs} \cup MalformedRecordTxRequests

CancelTxsRequests ==
    [balance_id : {UuidString(b) : b \in Accounts},
     tx_ids : SUBSET {UuidString(t) : t \in TxIds}]
    \cup {[balance_id |-> OtherString, tx_ids |-> {UuidString(1)}],
          [balance_id |-> UuidString(1), tx_ids |-> {UuidString(1), OtherString}]}

BalanceRequests ==
    [balance_id : {UuidString(b) : b \in Accounts} \cup {OtherString, EmptyString}]

ListTxRequests ==
    [balance_id : {UuidString(b) : b \in Accounts}, page_size : PageSizes,
     page_token : {EmptyString} \cup {UuidString(t) : t \in PageTxIds},
     include_deleted : BOOLEAN]
    \cup {[balance_id |-> OtherString, page_size |-> 1, page_token |-> EmptyString,
           include_deleted |-> FALSE],
          [balance_id |-> UuidString(1), page_size |-> 1, page_token |-> OtherString,
           include_deleted |-> FALSE]}

\* The request fails the checks the handler makes before it calls the store.
Rejects(method, req) ==
    IF method = "RecordTx" THEN TxFromProto(req).err # ""
    ELSE IF method = "CancelTxs"
    THEN \/ req.tx_ids = {}
         \/ ~UuidParse(req.balance_id).ok
         \/ \E str \in req.tx_ids : ~UuidParse(str).ok
    ELSE IF method = "ListTx"
    THEN \/ ~UuidParse(req.balance_id).ok
         \/ req.page_token # EmptyString /\ ~UuidParse(req.page_token).ok
    ELSE ~UuidParse(req.balance_id).ok

\* What the handlers of the store calls add to a step of the store: the content of
\* the error the store returns, the reply, the end of the RPC.
Handled(p) ==
    /\ \E text \in (IF pc'[p] = "exit" /\ err'[p] = ErrOther THEN ErrTexts ELSE {NoText}) :
            /\ errText' = [errText EXCEPT ![p] = text]
            /\ resp' = [resp EXCEPT ![p] =
                    IF pc'[p] = "exit"
                    THEN [reply |-> Reply(call'[p].op, err'[p], text),
                          body |-> [kind |-> "empty"]]
                    ELSE NoResp]
    /\ UNCHANGED paging

\* service RecordTx, CancelTxs and OpenBalance around the calls of the store; the
\* RecordTx requests are drawn from those of inputs.
Served(p, budget, inputs) ==
    \/ /\ pc[p] = "idle"
       /\ \/ \E req \in RecordTxRequests(inputs) :
                /\ ~Rejects("RecordTx", req) /\ ~TxFromProto(req).panic
                /\ RecordTxBegin(p, TxFromProto(req).tx, budget)
                /\ rpc' = [rpc EXCEPT ![p] = [method |-> "RecordTx", req |-> req]]
          \/ \E req \in CancelTxsRequests :
                /\ ~Rejects("CancelTxs", req)
                /\ CancelTxsBegin(p, UuidParse(req.balance_id).value,
                                  {UuidParse(str).value : str \in req.tx_ids}, budget)
                /\ rpc' = [rpc EXCEPT ![p] = [method |-> "CancelTxs", req |-> req]]
          \/ \E req \in BalanceRequests :
                /\ ~Rejects("OpenBalance", req)
                /\ OpenBalance(p, UuidParse(req.balance_id).value)
                /\ rpc' = [rpc EXCEPT ![p] = [method |-> "OpenBalance", req |-> req]]
       /\ Handled(p)
    \/ /\ pc[p] # "idle"
       /\ Worker(p, budget)
       /\ rpc' = [rpc EXCEPT ![p] = IF pc'[p] \in {"idle", "orphaned"} THEN NoRpc ELSE @]
       /\ Handled(p)

\* The message of the error of the first check of the handler the request fails:
\* the text of the parse error, or the handler's own for an empty batch.  The
\* ids of a batch are parsed in the order of the request: any of those that do
\* not parse may come first.
RejectMessages(method, req) ==
    IF method = "RecordTx" THEN {TxFromProto(req).err}
    ELSE IF method = "CancelTxs"
    THEN IF req.tx_ids = {} THEN {"no transaction ids provided"}
         ELSE IF ~UuidParse(req.balance_id).ok THEN {UuidParse(req.balance_id).err}
         ELSE {UuidParse(str).err : str \in {x \in req.tx_ids : ~UuidParse(x).ok}}
    ELSE IF method = "ListTx"
    THEN IF ~UuidParse(req.balance_id).ok THEN {UuidParse(req.balance_id).err}
         ELSE {UuidParse(req.page_token).err}
    ELSE {UuidParse(req.balance_id).err}

\* A handler returns invalid-argument, with the message of the check that failed,
\* for a request that fails its checks.
Refuse(p, method, req) ==
    /\ pc[p] = "idle"
    /\ Rejects(method, req)
    /\ pc' = [pc EXCEPT ![p] = "exit"]
    /\ rpc' = [rpc EXCEPT ![p] = [method |-> method, req |-> req]]
    /\ \E msg \in RejectMessages(method, req) :
            resp' = [resp EXCEPT ![p] =
                [reply |-> [code |-> CodeInvalidArgument, msg |-> msg, cause |-> NoText],
                 body |-> [kind |-> "empty"]]]
    /\ UNCHANGED <<balances, txs, advisory, hashtext, call, pgxTx, balanceChange, err,
                   calls, lastTx, errText, paging>>

\* service RecordTx panics in TxFromProto on a request without an amount.
Panic(p, req) ==
    /\ pc[p] = "idle"
    /\ ~Rejects("RecordTx", req) /\ TxFromProto(req).panic
    /\ pc' = [pc EXCEPT ![p] = "exit"]
    /\ rpc' = [rpc EXCEPT ![p] = [method |-> "RecordTx", req |-> req]]
    /\ resp' = [resp EXCEPT ![p] =
            [reply |-> [code |-> Aborted, msg |-> "", cause |-> NoText],
             body |-> [kind |-> "empty"]]]
    /\ UNCHANGED <<balances, txs, advisory, hashtext, call, pgxTx, balanceChange, err,
                   calls, lastTx, errText, paging>>

\* service Balance and Balances.Balance: one autocommitted select, or its failure
\* with an error that is not classified.
BalanceRpc(p, req) ==
    /\ pc[p] = "idle"
    /\ ~Rejects("Balance", req)
    /\ LET balance_id == UuidParse(req.balance_id).value
           rows == Balance(balances, balance_id)
       IN  /\ call' = [call EXCEPT ![p] = [op |-> "Balance", balance_id |-> balance_id]]
           /\ \E e \in {IF Len(rows) = 0 THEN ErrNotFound ELSE ErrNil, ErrOther} :
              \E text \in (IF e = ErrOther THEN ErrTexts ELSE {NoText}) :
                /\ err' = [err EXCEPT ![p] = e]
                /\ errText' = [errText EXCEPT ![p] = text]
                /\ resp' = [resp EXCEPT ![p] =
                        [reply |-> BalanceReply(e, text),
                         body |-> IF e = ErrNil
                                  THEN BalanceToProto(BalanceFromPgx(rows[1]))
                                  ELSE [kind |-> "empty"]]]
    /\ pc' = [pc EXCEPT ![p] = "exit"]
    /\ rpc' = [rpc EXCEPT ![p] = [method |-> "Balance", req |-> req]]
    /\ UNCHANGED <<balances, txs, advisory, hashtext, pgxTx, balanceChange, calls, lastTx,
                   paging>>

\* service ListTx with Balances.RecentTxs or Balances.PreviousTxs: one autocommitted
\* select, or its failure.
ListTx(p, req) ==
    /\ pc[p] = "idle"
    /\ ~Rejects("ListTx", req)
    /\ LET balance_id == UuidParse(req.balance_id).value
           res == IF req.page_token = EmptyString
                  THEN RecentTxs(txs, balance_id, req.include_deleted, req.page_size)
                  ELSE PreviousTxs(txs, balance_id, req.include_deleted,
                                   UuidParse(req.page_token).value, req.page_size)
           domainTxs == [i \in 1..Len(res.rows) |-> TxFromPgx(res.rows[i])]
           protoTxs == [i \in 1..Len(domainTxs) |-> TxToProto(domainTxs[i])]
       IN  /\ call' = [call EXCEPT ![p] =
                    [op |-> IF req.page_token = EmptyString THEN "RecentTxs" ELSE "PreviousTxs",
                     balance_id |-> balance_id]]
           /\ \E e \in {IF res.code # "" THEN ErrOther ELSE ErrNil, ErrOther} :
              \E text \in (IF e = ErrOther THEN ErrTexts ELSE {NoText}) :
                /\ err' = [err EXCEPT ![p] = e]
                /\ errText' = [errText EXCEPT ![p] = text]
                /\ resp' = [resp EXCEPT ![p] =
                        [reply |-> ListTxReply(e, text),
                         body |-> IF e = ErrNil
                                  THEN [txs |-> protoTxs,
                                        next_page_token |-> NextPageToken(protoTxs)]
                                  ELSE [kind |-> "empty"]]]
    /\ pc' = [pc EXCEPT ![p] = "exit"]
    /\ rpc' = [rpc EXCEPT ![p] = [method |-> "ListTx", req |-> req]]
    /\ UNCHANGED <<balances, txs, advisory, hashtext, pgxTx, balanceChange, calls, lastTx>>

\* The committed rows of an account that match a ListTx request's filter.
Matching(req) ==
    {t \in DOMAIN txs :
        /\ txs[t].balance_id = UuidParse(req.balance_id).value
        /\ req.include_deleted \/ txs[t].deleted_at = Null}

\* The tx ids of a page of a ListTx response.
PageIds(body) == {UuidParse(body.txs[i].tx_id).value : i \in 1..Len(body.txs)}

\* A caller pages through a history: a ListTx without page_token begins a paging
\* session, a ListTx whose page_token is the session's last next_page_token (same
\* account, filter and page size) continues it, a failed ListTx leaves it as it is.
\* The session keeps the rows that matched when it began, the ids its pages
\* returned, whether a page returned an id again, the last next_page_token, and
\* whether the last page came short of page_size (no older row was left).
PagedListTx(p, req) ==
    /\ req.page_token = EmptyString
       \/ /\ paging[p].on
          /\ paging[p].token = req.page_token
          /\ paging[p].req = [req EXCEPT !.page_token = EmptyString]
    /\ ListTx(p, req)
    /\ paging' = [paging EXCEPT ![p] =
            IF err'[p] # ErrNil THEN @
            ELSE IF req.page_token = EmptyString
            THEN [on |-> TRUE, req |-> req, began |-> Matching(req),
                  returned |-> PageIds(resp'[p].body), dup |-> FALSE,
                  token |-> resp'[p].body.next_page_token,
                  bottom |-> Len(resp'[p].body.txs) < req.page_size]
            ELSE [@ EXCEPT !.returned = @ \cup PageIds(resp'[p].body),
                           !.dup = @ \/ (PageIds(resp'[p].body) \cap paging[p].returned # {}),
                           !.token = resp'[p].body.next_page_token,
                           !.bottom = Len(resp'[p].body.txs) < req.page_size]]

\* One step of worker p's RPC other than ListTx.
Rpc(p, budget, inputs) ==
    \/ Served(p, budget, inputs)
    \/ /\ pc[p] = "idle"
       /\ \/ \E req \in RecordTxRequests(inputs) : Refuse(p, "RecordTx", req)
          \/ \E req \in CancelTxsRequests : Refuse(p, "CancelTxs", req)
          \/ \E req \in BalanceRequests : Refuse(p, "OpenBalance", req)
          \/ \E req \in BalanceRequests : Refuse(p, "Balance", req)
          \/ \E req \in RecordTxRequests(inputs) : Panic(p, req)
          \/ \E req \in BalanceRequests : BalanceRpc(p, req)

\* The RecordTx inputs of the specifications of the RPCs: one source, one amount.
RpcInputs == {tx \in TxInputs : tx.source = SourceGame /\ tx.amount = MaxAmount}

\* The ListTx requests of concurrent workers: the most recent page of an account.
RecentPageRequests ==
    {req \in ListTxRequests :
        /\ UuidParse(req.balance_id).ok
        /\ req.page_size = MaxPageSize /\ req.page_token = EmptyString
        /\ ~req.include_deleted}

\* Concurrent workers, one per RPC in progress, each RPC calling the store.
RpcNext ==
    \E p \in Procs :
        \/ Served(p, MaxCalls, RpcInputs)
        \/ /\ pc[p] = "idle"
           /\ \/ \E req \in BalanceRequests : BalanceRpc(p, req)
              \/ \E req \in RecentPageRequests : ListTx(p, req) /\ UNCHANGED paging

RpcSpec == Init /\ [][RpcNext]_vars

\* The RecordTx inputs of the histories that are read: one source, one amount.
ServiceInputs ==
    [tx_id : PageTxIds, balance_id : Accounts, source : {SourceGame}, state : States,
     amount : {MaxAmount}]

\* One caller, one RPC at a time, every RPC of the service.
ServiceNext ==
    \/ Rpc(1, MaxServiceCalls, ServiceInputs)
    \/ /\ pc[1] = "idle"
       /\ \/ \E req \in ListTxRequests : ListTx(1, req) /\ UNCHANGED paging
          \/ \E req \in ListTxRequests : Refuse(1, "ListTx", req)

ServiceSpec == Init /\ [][ServiceNext]_vars

\* The RecordTx calls that run while a caller pages: deposits.
PageInputs == {tx \in ServiceInputs : tx.state = StateDeposit}

\* The ListTx requests of a caller that pages: well-formed, of a page size that
\* is no error, of active rows.
PagingRequests ==
    {req \in ListTxRequests :
        /\ ~Rejects("ListTx", req)
        /\ req.page_size >= 0
        /\ ~req.include_deleted}

\* One step of a worker that opens accounts and records transactions.
Recording(p, budget, inputs) ==
    \/ \E b \in Accounts : OpenBalance(p, b)
    \/ \E tx \in inputs : RecordTxBegin(p, tx, budget)
    \/ LockBalance(p)
    \/ RecordTxUpdate(p)
    \/ RecordTxInsert(p)
    \/ Commit(p)
    \/ Fail(p)
    \/ Exit(p)
    \/ Abort(p)

\* The handler of worker p's RPC returns.
Returns(p) ==
    /\ Exit(p)
    /\ rpc' = [rpc EXCEPT ![p] = NoRpc]
    /\ Handled(p)

\* A caller (worker 1) pages through the histories while RecordTx calls
\* (worker 2) insert rows.
PageNext ==
    \/ Recording(2, MaxPageCalls, PageInputs) /\ UNCHANGED serviceVars
    \/ /\ pc[1] = "idle"
       /\ \E req \in PagingRequests : PagedListTx(1, req)
    \/ Returns(1)

PageSpec == Init /\ [][PageNext]_vars

\* Concurrent workers, one per call of the store in progress.
Next == \E p \in Procs : Worker(p, MaxCalls) /\ UNCHANGED serviceVars

Spec == Init /\ [][Next]_vars

\* One call at a time: a single worker, a longer history.
SeqNext == Worker(1, MaxSeqCalls) /\ UNCHANGED serviceVars

SeqSpec == Init /\ [][SeqNext]_vars

\* Concurrent workers on a ledger in service, the lock keys of the accounts
\* distinct or colliding, the RecordTx calls of one source and one amount.
HashNext == \E p \in Procs : WorkerOn(p, MaxHashCalls, RpcInputs) /\ UNCHANGED serviceVars

HashSpec == HashInit /\ [][HashNext]_vars

\* The RecordTx calls of one tx id, on either account.
RetryInputs == {tx \in RpcInputs : tx.tx_id = 1}

\* Concurrent workers that record, retry and cancel one tx id.
RetryNext == \E p \in Procs : WorkerOn(p, MaxRetryCalls, RetryInputs) /\ UNCHANGED serviceVars

RetrySpec == Init /\ [][RetryNext]_vars

\* ------------------------------------------------------------- properties
\* The ledger convention: a deposit adds its amount, a withdraw subtracts it.
Signed(state, amount) == IF state = StateDeposit THEN amount ELSE 0 - amount

RECURSIVE SumSigned(_, _)
SumSigned(table, ids) ==
    IF ids = {} THEN 0
    ELSE LET t == CHOOSE x \in ids : TRUE
         IN  Signed(table[t].state, table[t].amount) + SumSigned(table, ids \ {t})

\* The active (not cancelled) rows of an account.
ActiveOf(b) == {t \in DOMAIN txs : txs[t].balance_id = b /\ txs[t].deleted_at = Null}

\* Worker p is at the exit of a call of operation op.
AtExit(p, op) == pc[p] = "exit" /\ call[p].op = op

\* At the exit of p's RecordTx: a row with the call's (account, tx id) pair that an
\* earlier transaction created.
RecordedBefore(p) ==
    LET id == call[p].tx.tx_id
    IN  /\ id \in DOMAIN txs
        /\ txs[id].balance_id = call[p].balance_id
        /\ txs[id].created_at # pgxTx[p].now

\* At the exit of p's call, one call at a time: the balance of the call's account
\* when the call began.
BalanceBefore(p) ==
    IF pgxTx[p].open THEN balances[call[p].balance_id] ELSE lastTx[call[p].balance_id].before

\* C1: in every committed state every balance row has amount >= 0.
C1_NonNegative == \A b \in DOMAIN balances : balances[b] >= 0

\* A withdrawal (or the cancellation of a deposit) was rejected by the check.
C1_Witness ==
    \E p \in Procs : pc[p] = "exit" /\ err[p] = ErrNegativeBalance

\* C2: each balance equals the sum of its active deposits minus the sum of its
\* active withdraws.
C2_LedgerSum ==
    \A b \in DOMAIN balances : balances[b] = SumSigned(txs, ActiveOf(b))

\* C3: for each tx id at most one RecordTx commits: a RecordTx changes the tables
\* only by the commit that first records its tx id, and a recorded id stays recorded.
C3_ExactlyOnce ==
    [][/\ DOMAIN txs \subseteq DOMAIN txs'
       /\ \A p \in Procs :
            (/\ call[p].op = "RecordTx"
             /\ pc'[p] # pc[p]
             /\ (balances' # balances \/ txs' # txs))
            => /\ pc[p] = "commit"
               /\ call[p].tx.tx_id \notin DOMAIN txs
               /\ call[p].tx.tx_id \in DOMAIN txs']_vars

\* A RecordTx with a tx id that an earlier transaction recorded was rejected
\* while the recorded row is cancelled, by a CancelTxs that began after this
\* RecordTx and committed before it took the lock.
C3_Witness ==
    \E p \in Procs :
        /\ AtExit(p, "RecordTx") /\ err[p] = ErrAlreadyExists
        /\ RecordedBefore(p)
        /\ txs[call[p].tx.tx_id].created_at < pgxTx[p].now
        /\ txs[call[p].tx.tx_id].deleted_at > pgxTx[p].now

\* C4 as stated: a RecordTx whose (account, tx id) pair is already recorded fails
\* with AlreadyExists (connection failures aside).
C4_DuplicateAlreadyExists ==
    \A p \in Procs :
        (AtExit(p, "RecordTx") /\ RecordedBefore(p) /\ err[p] # ErrOther)
        => err[p] = ErrAlreadyExists

\* C4 amended: such a call fails with NegativeBalance when the balance plus the
\* call's signed delta is negative, and with AlreadyExists otherwise.
C4_DuplicateRejected ==
    \A p \in Procs :
        (AtExit(p, "RecordTx") /\ RecordedBefore(p) /\ err[p] # ErrOther)
        => err[p] = IF balances[call[p].balance_id]
                        + Signed(call[p].tx.state, call[p].tx.amount) < 0
                    THEN ErrNegativeBalance
                    ELSE ErrAlreadyExists

\* A repeated withdrawal the balance could still cover is rejected as a duplicate.
C4_Witness ==
    \E p \in Procs :
        /\ AtExit(p, "RecordTx") /\ RecordedBefore(p)
        /\ call[p].tx.state = StateWithdraw /\ call[p].tx.amount > 0
        /\ err[p] = ErrAlreadyExists

\* C5: a committed CancelTxs changes the balance by exactly the inverse effects of
\* the rows it newly marks cancelled.
C5_ReversedOnce ==
    [][\A p \in Procs :
        (/\ call[p].op = "CancelTxs"
         /\ pc[p] = "commit" /\ pc'[p] = "exit" /\ err'[p] = ErrNil)
        => LET b == call[p].balance_id
               marked == {t \in DOMAIN txs :
                            txs[t].deleted_at = Null /\ txs'[t].deleted_at # Null}
           IN  balances'[b] = balances[b] - SumSigned(txs, marked)]_vars

\* C6: a CancelTxs whose ids all name rows of the account that were cancelled
\* before the call fails with NotFound (connection failures aside).
C6_AllCancelledNotFound ==
    \A p \in Procs :
        (/\ AtExit(p, "CancelTxs")
         /\ err[p] # ErrOther
         /\ \A t \in call[p].tx_ids :
                /\ t \in DOMAIN txs
                /\ txs[t].balance_id = call[p].balance_id
                /\ txs[t].deleted_at \notin {Null, pgxTx[p].now})
        => err[p] = ErrNotFound

\* C7: once CancelTxs([tx.id]) is the next mutation to finish after a successful
\* RecordTx(tx) on the account, the balance is the one before the RecordTx; and
\* such a CancelTxs does not fail (connection failures aside).
C7_Reversible ==
    /\ \A b \in Accounts : lastTx[b].reversed => balances[b] = lastTx[b].before
    /\ \A p \in Procs :
        (/\ AtExit(p, "CancelTxs")
         /\ lastTx[call[p].balance_id].tx_id # 0
         /\ ~lastTx[call[p].balance_id].reversed
         /\ call[p].tx_ids = {lastTx[call[p].balance_id].tx_id})
        => err[p] = ErrOther

\* A withdrawal from a positive balance was recorded and then cancelled.
C7_Witness ==
    \E b \in Accounts :
        /\ lastTx[b].reversed
        /\ lastTx[b].before > 0
        /\ txs[lastTx[b].tx_id].state = StateWithdraw
        /\ txs[lastTx[b].tx_id].amount > 0

\* C8: the commit of a RecordTx adds the signed amount to the balance of the
\* request's account, changes no other balance, and adds to txs exactly one row:
\* active, with the request's account, tx id, source, state and amount.
C8_RecordEffect ==
    [][\A p \in Procs :
        (/\ call[p].op = "RecordTx"
         /\ pc[p] = "commit" /\ pc'[p] = "exit" /\ err'[p] = ErrNil)
        => LET tx == call[p].tx
           IN  /\ tx.balance_id \in DOMAIN balances
               /\ balances' = [balances EXCEPT ![tx.balance_id] =
                                    @ + Signed(tx.state, tx.amount)]
               /\ tx.tx_id \notin DOMAIN txs
               /\ DOMAIN txs' = DOMAIN txs \cup {tx.tx_id}
               /\ \A t \in DOMAIN txs : txs'[t] = txs[t]
               /\ txs'[tx.tx_id].balance_id = tx.balance_id
               /\ txs'[tx.tx_id].tx_id = tx.tx_id
               /\ txs'[tx.tx_id].source = tx.source
               /\ txs'[tx.tx_id].state = tx.state
               /\ txs'[tx.tx_id].amount = tx.amount
               /\ txs'[tx.tx_id].deleted_at = Null]_vars

\* A withdrawal sourced by a service was recorded while another row existed.
C8_Witness ==
    \E p \in Procs :
        /\ AtExit(p, "RecordTx") /\ err[p] = ErrNil
        /\ call[p].tx.state = StateWithdraw
        /\ call[p].tx.source = SourceService
        /\ call[p].tx.tx_id \in DOMAIN txs
        /\ Cardinality(DOMAIN txs) > 1

\* C9 as stated: a RecordTx whose signed delta would make the balance negative
\* fails with NegativeBalance, and no row with its tx id is visible afterwards.
C9_NegativeNoRowOfId ==
    \A p \in Procs :
        (/\ AtExit(p, "RecordTx")
         /\ err[p] # ErrOther
         /\ call[p].balance_id \in DOMAIN balances
         /\ BalanceBefore(p) + Signed(call[p].tx.state, call[p].tx.amount) < 0)
        => /\ err[p] = ErrNegativeBalance
           /\ call[p].tx.tx_id \notin DOMAIN txs

\* C9 amended: such a call fails with NegativeBalance and no row it inserted is
\* visible afterwards.
C9_NegativeRejected ==
    \A p \in Procs :
        (/\ AtExit(p, "RecordTx")
         /\ err[p] # ErrOther
         /\ call[p].balance_id \in DOMAIN balances
         /\ BalanceBefore(p) + Signed(call[p].tx.state, call[p].tx.amount) < 0)
        => /\ err[p] = ErrNegativeBalance
           /\ \A t \in DOMAIN txs : txs[t].created_at # pgxTx[p].now

\* A withdrawal larger than a positive balance was rejected.
C9_Witness ==
    \E p \in Procs :
        /\ AtExit(p, "RecordTx")
        /\ err[p] = ErrNegativeBalance
        /\ call[p].tx.state = StateWithdraw
        /\ call[p].tx.tx_id \notin DOMAIN txs

\* C10: a RecordTx or CancelTxs call changes the tables only in the step in
\* which the server commits its transaction: a call that returns an error from any
\* step before Commit, its Begin included, has changed nothing.
C10_FailureChangesNothing ==
    [][\A p \in Procs :
        (/\ {call[p].op, call'[p].op} \cap {"RecordTx", "CancelTxs"} # {}
         /\ pc'[p] # pc[p]
         /\ (balances' # balances \/ txs' # txs))
        => /\ pc[p] = "commit"
           /\ pc'[p] = "exit"
           /\ err'[p] \in {ErrNil, ErrOther}]_vars

\* A call is about to return an error with a balance update to roll back.
C10_Witness ==
    \E p \in Procs :
        /\ pc[p] = "exit"
        /\ err[p] \in {ErrAlreadyExists, ErrOther}
        /\ pgxTx[p].open
        /\ pgxTx[p].balances # Empty
        /\ pgxTx[p].balances[call[p].balance_id] # balances[call[p].balance_id]

\* The positions of a call after LockBalance returned and before Commit returned.
Statements == {"update", "insert", "fetch", "reverse", "delete", "commit"}

HoldsLock(p) == \E k \in DOMAIN advisory : advisory[k] = p

\* Worker p's transaction is between its lock acquisition and its commit or rollback.
InTx(p) ==
    /\ pgxTx[p].open
    /\ pc[p] \in Statements \/ (pc[p] \in {"exit", "orphaned"} /\ HoldsLock(p))

\* C11: no two transactions on the same account are between lock acquisition and
\* commit/rollback at the same time.
C11_Serialized ==
    \A p, q \in Procs :
        (p # q /\ InTx(p) /\ InTx(q)) => call[p].balance_id # call[q].balance_id

\* A second caller waits for the lock while the first has updated the balance.
C11_Witness ==
    \E p, q \in Procs :
        /\ p # q
        /\ call[p].op \in {"RecordTx", "CancelTxs"}
        /\ call[q].op \in {"RecordTx", "CancelTxs"}
        /\ call[p].balance_id = call[q].balance_id
        /\ InTx(p) /\ pgxTx[p].balances # Empty
        /\ pc[q] = "lock"

\* The next statement of p's transaction (its failure aside).
Step(p) ==
    \/ LockBalance(p)
    \/ RecordTxUpdate(p)
    \/ RecordTxInsert(p)
    \/ CancelTxsFetch(p)
    \/ CancelTxsUpdate(p)
    \/ CancelTxsDelete(p)
    \/ Commit(p)

\* Worker p's transaction waits for another transaction to end.
Blocked(p) == pc[p] \in {"lock"} \cup Statements /\ ~ENABLED Step(p)

\* C12 as stated: a transaction is blocked only while a transaction on the same
\* account is open.
C12_NoCrossAccountBlocking ==
    \A p \in Procs :
        Blocked(p) => \E q \in Procs \ {p} :
                        pgxTx[q].open /\ call[q].balance_id = call[p].balance_id

\* C12 amended: a transaction is blocked only at LockBalance by the holder of the
\* key its account hashes to, or at InsertTx by an open transaction that has
\* inserted a row with the same tx id, or at InsertTx by an open transaction
\* that has marked the committed row with that tx id cancelled.
C12_BlockedBySharedKey ==
    \A p \in Procs :
        Blocked(p) => \E q \in Procs \ {p} :
            /\ pgxTx[q].open
            /\ \/ /\ pc[p] = "lock"
                  /\ hashtext[call[p].balance_id] = hashtext[call[q].balance_id]
                  /\ InTx(q)
               \/ /\ pc[p] = "insert"
                  /\ call[q].op = "RecordTx"
                  /\ call[p].tx.tx_id \in DOMAIN pgxTx[q].ins
               \/ /\ pc[p] = "insert"
                  /\ call[q].op = "CancelTxs"
                  /\ call[p].tx.tx_id \in pgxTx[q].del
                  /\ call[p].tx.tx_id \in DOMAIN txs

\* A mutation committed while an older transaction on another account was open.
C12_Witness ==
    \E p, q \in Procs :
        /\ call[p].op \in {"RecordTx", "CancelTxs"}
        /\ call[q].op \in {"RecordTx", "CancelTxs"}
        /\ call[p].balance_id # call[q].balance_id
        /\ pc[p] = "exit" /\ err[p] = ErrNil /\ ~pgxTx[p].open
        /\ pc[q] = "commit" /\ pgxTx[q].now < pgxTx[p].now

\* A call has returned: its worker holds no call, or only the session the call
\* left on the server.
Returned(p) == pc[p] \in {"idle", "orphaned"}

\* C13: a call that has returned has left no open transaction and no lock, and
\* every lock held is held by the open transaction of a call in progress on an
\* account with that key.
C13_ClosedOnReturn ==
    /\ \A p \in Procs : Returned(p) => ~pgxTx[p].open /\ ~HoldsLock(p)
    /\ \A k \in DOMAIN advisory :
            /\ ~Returned(advisory[k])
            /\ pgxTx[advisory[k]].open
            /\ call[advisory[k]].op \in {"RecordTx", "CancelTxs"}
            /\ hashtext[call[advisory[k]].balance_id] = k

\* C14: the commit of a CancelTxs that returns nil marks every active row of the
\* account named in the batch and applies the one balance update in the same
\* step; no other step of a CancelTxs call, and no step of one that returns an
\* error, changes a tx row or a balance.
C14_AllOrNothing ==
    [][\A p \in Procs :
        (call[p].op = "CancelTxs" /\ pc'[p] # pc[p])
        => IF pc[p] = "commit" /\ pc'[p] = "exit" /\ err'[p] = ErrNil
           THEN /\ \A t \in DOMAIN txs :
                     (/\ t \in call[p].tx_ids
                      /\ txs[t].balance_id = call[p].balance_id
                      /\ txs[t].deleted_at = Null)
                     => txs'[t].deleted_at # Null
                /\ balances' = [balances EXCEPT ![call[p].balance_id] =
                                    @ + balanceChange[p]]
           ELSE txs' = txs /\ balances' = balances]_vars

\* The rows of the account of p's CancelTxs that its batch names.
Matched(p) ==
    {t \in DOMAIN txs : t \in call[p].tx_ids /\ txs[t].balance_id = call[p].balance_id}

\* C15: a CancelTxs whose batch names no transaction of its account fails with
\* NotFound (connection failures aside) and has written nothing: its transaction
\* is open, to be rolled back, or was never opened.
C15_NoMatchNotFound ==
    \A p \in Procs :
        (AtExit(p, "CancelTxs") /\ Matched(p) = {})
        => /\ err[p] \in {ErrNotFound, ErrOther}
           /\ pgxTx[p].open \/ pgxTx[p] = NoTx
           /\ err[p] = ErrNotFound => pgxTx[p].open
           /\ pgxTx[p].balances = Empty
           /\ pgxTx[p].del = {}

\* The batch named a transaction recorded under another account of an opened
\* account's caller.
C15_Witness ==
    \E p \in Procs :
        /\ AtExit(p, "CancelTxs") /\ err[p] = ErrNotFound
        /\ call[p].balance_id \in DOMAIN balances
        /\ \E t \in call[p].tx_ids \cap DOMAIN txs :
                txs[t].balance_id # call[p].balance_id /\ txs[t].deleted_at = Null

\* C16: a CancelTxs whose aggregate reversing delta (over the rows its batch names)
\* would make the balance negative fails with NegativeBalance (connection failures
\* aside), marks no row and leaves the balance unchanged.  One call at a time: the
\* balance before the call is the current one less what the call committed.
C16_NegativeCancelRejected ==
    \A p \in Procs :
        LET b == call[p].balance_id
            delta == 0 - SumSigned(txs, Matched(p))
            before == IF pgxTx[p].open THEN balances[b] ELSE balances[b] - delta
        IN  (/\ AtExit(p, "CancelTxs")
             /\ err[p] # ErrOther
             /\ Matched(p) # {}
             /\ b \in DOMAIN balances
             /\ before + delta < 0)
            => /\ err[p] = ErrNegativeBalance
               /\ pgxTx[p].open
               /\ \A t \in DOMAIN txs : txs[t].deleted_at # pgxTx[p].now

\* The cancellation of a deposit whose funds were withdrawn since was rejected.
C16_Witness ==
    \E p \in Procs :
        /\ AtExit(p, "CancelTxs") /\ err[p] = ErrNegativeBalance
        /\ \E t \in Matched(p), u \in ActiveOf(call[p].balance_id) :
                /\ txs[t].state = StateDeposit /\ txs[t].amount > 0
                /\ txs[t].deleted_at = Null
                /\ txs[u].state = StateWithdraw /\ txs[u].amount > 0
                /\ txs[u].created_at > txs[t].created_at

\* C17: a RecordTx on an account without a balance row fails with NotFound
\* (connection failures aside) and has inserted no row: its transaction is open,
\* to be rolled back, or was never opened.
C17_UnopenedNotFound ==
    \A p \in Procs :
        (AtExit(p, "RecordTx") /\ call[p].balance_id \notin DOMAIN balances)
        => /\ err[p] \in {ErrNotFound, ErrOther}
           /\ pgxTx[p].open \/ pgxTx[p] = NoTx
           /\ err[p] = ErrNotFound => pgxTx[p].open
           /\ pgxTx[p].ins = Empty
           /\ \A t \in DOMAIN txs : txs[t].created_at # pgxTx[p].now

\* A withdrawal with a tx id recorded under an opened account was refused on an
\* unopened one.
C17_Witness ==
    \E p \in Procs :
        /\ AtExit(p, "RecordTx") /\ err[p] = ErrNotFound
        /\ call[p].balance_id \notin DOMAIN balances
        /\ call[p].tx.state = StateWithdraw
        /\ call[p].tx.tx_id \in DOMAIN txs

\* C18: OpenBalance on an unopened account adds a balance row with amount 0 and
\* returns nil; on an opened account it fails with AlreadyExists and leaves the
\* balances as they are.  A connection failure returns an unclassified error, with
\* the row of an unopened account added, amount 0, or not.
C18_OpenBalance ==
    [][\A p \in Procs :
        (pc[p] = "idle" /\ call'[p].op = "OpenBalance")
        => LET b == call'[p].balance_id
           IN  /\ txs' = txs
               /\ IF b \in DOMAIN balances
                  THEN /\ err'[p] \in {ErrAlreadyExists, ErrOther}
                       /\ balances' = balances
                  ELSE \/ /\ err'[p] = ErrNil
                          /\ balances' = (b :> 0) @@ balances
                       \/ /\ err'[p] = ErrOther
                          /\ balances' \in {balances, (b :> 0) @@ balances}]_vars

\* OpenBalance was refused on an account that holds a deposit.
C18_Witness ==
    \E p \in Procs :
        /\ AtExit(p, "OpenBalance") /\ err[p] = ErrAlreadyExists
        /\ balances[call[p].balance_id] > 0
        /\ ActiveOf(call[p].balance_id) # {}

\* C19: a cancellation timestamp that is set is never cleared nor overwritten.
C19_CancelMonotonic ==
    [][\A t \in DOMAIN txs :
        txs[t].deleted_at # Null
        => t \in DOMAIN txs' /\ txs'[t].deleted_at = txs[t].deleted_at]_vars

\* A CancelTxs committed on a row an earlier CancelTxs had cancelled: the row
\* keeps the earlier timestamp.
C19_Witness ==
    \E p \in Procs :
        /\ AtExit(p, "CancelTxs") /\ err[p] = ErrNil
        /\ \E t \in Matched(p) : txs[t].deleted_at \notin {Null, pgxTx[p].now}

\* C20: a committed tx row is never removed, and nothing but its cancellation
\* timestamp ever changes.
C20_AppendOnly ==
    [][\A t \in DOMAIN txs :
        /\ t \in DOMAIN txs'
        /\ txs'[t] = [txs[t] EXCEPT !.deleted_at = txs'[t].deleted_at]]_vars

\* A RecordTx that carried other fields under the tx id of a cancelled row was
\* rejected.
C20_Witness ==
    \E p \in Procs :
        /\ AtExit(p, "RecordTx") /\ err[p] = ErrAlreadyExists
        /\ call[p].tx.tx_id \in DOMAIN txs
        /\ txs[call[p].tx.tx_id].deleted_at # Null
        /\ txs[call[p].tx.tx_id].balance_id # call[p].tx.balance_id
        /\ txs[call[p].tx.tx_id].state # call[p].tx.state
        /\ txs[call[p].tx.tx_id].amount # call[p].tx.amount
        /\ txs[call[p].tx.tx_id].source # call[p].tx.source

\* C21: every stored tx row has amount > 0.
C21_PositiveAmounts ==
    \A t \in DOMAIN txs : txs[t].amount > 0

\* At the exit of p's RecordTx: a row with the call's tx id, under any account,
\* that an earlier transaction created.
IdRecordedBefore(p) ==
    /\ call[p].tx.tx_id \in DOMAIN txs
    /\ txs[call[p].tx.tx_id].created_at # pgxTx[p].now

\* C22 as stated: a RecordTx whose tx id is already recorded, under the same or
\* another account, fails with AlreadyExists (connection failures aside).
C22_DuplicateIdAlreadyExists ==
    \A p \in Procs :
        (AtExit(p, "RecordTx") /\ IdRecordedBefore(p) /\ err[p] # ErrOther)
        => err[p] = ErrAlreadyExists

\* C22 amended: no two rows share a tx id; a RecordTx whose tx id is already
\* recorded fails with NotFound on an unopened account, with NegativeBalance when
\* the balance plus its signed delta is negative, with AlreadyExists otherwise,
\* and commits nothing.
C22_DuplicateIdRejected ==
    /\ \A t, u \in DOMAIN txs : txs[t].tx_id = txs[u].tx_id => t = u
    /\ \A p \in Procs :
        (AtExit(p, "RecordTx") /\ IdRecordedBefore(p) /\ err[p] # ErrOther)
        => /\ pgxTx[p].open
           /\ err[p] = IF call[p].balance_id \notin DOMAIN balances
                       THEN ErrNotFound
                       ELSE IF balances[call[p].balance_id]
                                + Signed(call[p].tx.state, call[p].tx.amount) < 0
                       THEN ErrNegativeBalance
                       ELSE ErrAlreadyExists

\* A tx id recorded under one account was refused as a duplicate on another.
C22_Witness ==
    \E p \in Procs :
        /\ AtExit(p, "RecordTx") /\ IdRecordedBefore(p)
        /\ txs[call[p].tx.tx_id].balance_id # call[p].balance_id
        /\ err[p] = ErrAlreadyExists

\* Worker p is at the end of a ListTx that returned a page.
ListTxDone(p) ==
    pc[p] = "exit" /\ rpc[p].method = "ListTx" /\ resp[p].reply.code = CodeOK

\* The rows a ListTx request is to select from: the rows of the account that are
\* active (or all of them when include_deleted is set) and, with a page_token,
\* whose id is below it.
Candidates(req) ==
    {t \in Matching(req) :
        req.page_token = EmptyString \/ t < UuidParse(req.page_token).value}

\* The tx id of the i-th item of the page worker p got.
PageId(p, i) == UuidParse(resp[p].body.txs[i].tx_id).value

\* C23: a history read returns exactly the first limit rows, in descending tx id
\* order, of the account's rows that are active (all rows with include_deleted)
\* and, for PreviousTxs, below beforeID: the page is strictly descending, holds
\* only such rows with their stored content, has min(limit, number of such rows)
\* items, and every such row it leaves out is below all it returns.
C23_HistoryRead ==
    \A p \in Procs :
        ListTxDone(p)
        => LET req == rpc[p].req
               n == Len(resp[p].body.txs)
           IN  /\ \A i, j \in 1..n : i < j => PageId(p, i) > PageId(p, j)
               /\ \A i \in 1..n :
                    /\ PageId(p, i) \in Candidates(req)
                    /\ resp[p].body.txs[i] = TxToProto(TxFromPgx(txs[PageId(p, i)]))
               /\ n = IF req.page_size < Cardinality(Candidates(req))
                      THEN req.page_size ELSE Cardinality(Candidates(req))
               /\ \A t \in Candidates(req) :
                    (\A i \in 1..n : PageId(p, i) # t) => \A i \in 1..n : t < PageId(p, i)

\* A read below the id of a row of the account returned the one older active row
\* and left out the row of the bound.
C23_Witness ==
    \E p \in Procs :
        /\ ListTxDone(p)
        /\ rpc[p].req.page_token # EmptyString
        /\ ~rpc[p].req.include_deleted
        /\ UuidParse(rpc[p].req.page_token).value \in Matching(rpc[p].req)
        /\ Len(resp[p].body.txs) = 1

\* C24: for a fixed account, beforeID, includeDeleted and limit, the result of
\* PreviousTxs is the same, rows and order, before and after a RecordTx (of a
\* positive amount) inserts a row for the account.
C24_StableUnderInserts ==
    [][\A p \in Procs :
        (/\ call[p].op = "RecordTx" /\ call[p].tx.amount > 0
         /\ pc[p] = "commit" /\ pc'[p] = "exit" /\ err'[p] = ErrNil)
        => \A beforeID \in TxIds : \A includeDeleted \in BOOLEAN :
           \A limit \in 0..MaxPageSize :
                PreviousTxs(txs', call[p].balance_id, includeDeleted, beforeID, limit)
                    = PreviousTxs(txs, call[p].balance_id, includeDeleted, beforeID, limit)]_vars

\* The paging of worker p has passed the row of tx id t: a page reached down to
\* an id at or below t (the page_token of the next page), or the last page came
\* short of the page size.
Passed(p, t) ==
    \/ paging[p].bottom
    \/ /\ paging[p].token # EmptyString
       /\ t >= UuidParse(paging[p].token).value

\* C25: paging an account's history with each page's next_page_token while
\* RecordTx calls insert rows never returns a transaction in two pages and never
\* skips a transaction that was present when the paging began: every such
\* transaction the paging has passed was returned.
C25_NoDuplicateNoSkip ==
    \A p \in Procs :
        paging[p].on
        => /\ ~paging[p].dup
           /\ \A t \in paging[p].began : Passed(p, t) => t \in paging[p].returned

\* A paging of one item per page came to its end: between the rows it began
\* with it returned a row that a RecordTx inserted after the paging began, while
\* an older row of the beginning was still to come.
C25_Witness ==
    \E p \in Procs :
        /\ paging[p].on /\ paging[p].bottom
        /\ paging[p].req.page_size = 1
        /\ \E t \in paging[p].returned \ paging[p].began :
           \E u, v \in paging[p].began : u < t /\ t < v

\* C26: the next_page_token of a ListTx page (of a request for at least one item)
\* is the id of the last item of the page, and is empty when the page is the
\* final one: when no older matching transaction remains after it.
C26_NextPageToken ==
    \A p \in Procs :
        (ListTxDone(p) /\ rpc[p].req.page_size >= 1)
        => LET n == Len(resp[p].body.txs)
               older == {t \in Candidates(rpc[p].req) : \A i \in 1..n : t < PageId(p, i)}
           IN  resp[p].body.next_page_token
                    = IF n = 0 \/ older = {} THEN EmptyString ELSE resp[p].body.txs[n].tx_id

\* Worker p is at the end of an RPC whose handler called the store.
StoreReturned(p) == pc[p] = "exit" /\ call[p].op # "none"

\* C27: for every RPC the store outcome determines the returned code: NotFound
\* maps to not-found, AlreadyExists to already-exists, NegativeBalance to
\* invalid-argument, any other store error to internal, success to an OK
\* response; no store error is reported as success.
C27_CodeOfOutcome ==
    \A p \in Procs :
        StoreReturned(p)
        => /\ resp[p].reply.code =
                    IF err[p] = ErrNil THEN CodeOK
                    ELSE IF err[p] = ErrNotFound THEN CodeNotFound
                    ELSE IF err[p] = ErrAlreadyExists THEN CodeAlreadyExists
                    ELSE IF err[p] = ErrNegativeBalance THEN CodeInvalidArgument
                    ELSE CodeInternal
           /\ err[p] # ErrNil => resp[p].reply.code # CodeOK

\* A CancelTxs the balance could not cover was answered with invalid-argument.
C27_Witness ==
    \E p \in Procs :
        /\ StoreReturned(p) /\ rpc[p].method = "CancelTxs"
        /\ err[p] = ErrNegativeBalance
        /\ resp[p].reply.code = CodeInvalidArgument

\* A request of the method is malformed: an id that is no uuid, an amount that is
\* missing or no decimal, an unspecified source or state, an empty cancellation list.
Malformed(method, req) ==
    \/ ~UuidParse(req.balance_id).ok
    \/ /\ method = "RecordTx"
       /\ \/ ~UuidParse(req.tx_id).ok
          \/ ~req.amount.present
          \/ ~NewFromString(req.amount.value).ok
          \/ req.source = SourceUnknown
          \/ req.state = StateUnknown
    \/ /\ method = "CancelTxs"
       /\ req.tx_ids = {} \/ \E str \in req.tx_ids : ~UuidParse(str).ok
    \/ /\ method = "ListTx"
       /\ req.page_token # EmptyString /\ ~UuidParse(req.page_token).ok

\* C28: a request with an unparseable account or transaction id, an unparseable
\* amount, an unspecified source or state, or an empty cancellation list is
\* rejected with invalid-argument, and the store is not invoked.
C28_MalformedRejected ==
    \A p \in Procs :
        (pc[p] = "exit" /\ rpc[p].method # "none" /\ Malformed(rpc[p].method, rpc[p].req))
        => /\ resp[p].reply.code = CodeInvalidArgument
           /\ call[p].op = "none"
           /\ ~pgxTx[p].open

\* Worker p is at the end of an RPC whose store call failed with an error that
\* wraps no sentinel.
FailedUnclassified(p) == StoreReturned(p) /\ err[p] = ErrOther

\* C29: for any two unclassified store failures of the same RPC the error
\* returned to the caller is identical, code internal with a fixed message: it
\* does not depend on the content of the store error.
C29_SameReply ==
    \A p, q \in Procs :
        (/\ FailedUnclassified(p) /\ FailedUnclassified(q)
         /\ rpc[p].method = rpc[q].method)
        => /\ resp[p].reply = resp[q].reply
           /\ resp[p].reply.code = CodeInternal

\* Two RecordTx calls failed with store errors of different content.
C29_Witness ==
    \E p, q \in Procs :
        /\ FailedUnclassified(p) /\ FailedUnclassified(q)
        /\ rpc[p].method = "RecordTx" /\ rpc[q].method = "RecordTx"
        /\ errText[p] # errText[q]

\* C30: in every RecordTx the balance update is attempted after the lock is
\* acquired and before the insert of the tx row, and the insert is attempted only
\* after the update succeeded on exactly one balance row (the account's, by the
\* signed amount); a RecordTx rejected as a duplicate commits nothing.
C30_UpdateBeforeInsert ==
    [][\A p \in Procs :
        (call'[p].op = "RecordTx" /\ pc'[p] # pc[p])
        => LET b == call'[p].balance_id
               tx == call'[p].tx
           IN  /\ pc'[p] = "update"
                    => /\ pc[p] = "lock"
                       /\ LockKey(hashtext, b) \in DOMAIN advisory'
                       /\ advisory'[LockKey(hashtext, b)] = p
                       /\ pgxTx'[p].balances = Empty /\ pgxTx'[p].ins = Empty
               /\ pc'[p] = "insert"
                    => /\ pc[p] = "update"
                       /\ HoldsLock(p)
                       /\ b \in DOMAIN balances
                       /\ pgxTx'[p].balances = (b :> balances[b] + Signed(tx.state, tx.amount))
                       /\ pgxTx'[p].ins = Empty
               /\ pc'[p] = "commit"
                    => /\ pc[p] = "insert"
                       /\ DOMAIN pgxTx[p].balances = {b}
                       /\ DOMAIN pgxTx'[p].ins = {tx.tx_id}
               /\ (pc'[p] = "exit" /\ err'[p] = ErrAlreadyExists)
                    => /\ pc[p] = "insert"
                       /\ DOMAIN pgxTx[p].balances = {b}
                       /\ balances' = balances /\ txs' = txs]_vars

\* A duplicate reached the insert with its delta applied in its open transaction
\* only: the committed balance is the one before the call.
C30_Witness ==
    \E p \in Procs :
        /\ AtExit(p, "RecordTx") /\ err[p] = ErrAlreadyExists
        /\ RecordedBefore(p)
        /\ HoldsLock(p)
        /\ Signed(call[p].tx.state, call[p].tx.amount) # 0
        /\ pgxTx[p].balances = (call[p].balance_id :>
                balances[call[p].balance_id] + Signed(call[p].tx.state, call[p].tx.amount))
        /\ pgxTx[p].ins = Empty

\* RecordTx run alone on committed tables: its result and the tables it leaves.
SerialRecordTx(bal, table, tx, now) ==
    LET upd == UpdateBalance(bal, tx.balance_id, RecordChange(tx))
        ins == InsertTx(table, TxToPgx(tx), now)
    IN  IF UpdateErr(upd) # ErrNil
        THEN [err |-> UpdateErr(upd), balances |-> bal, txs |-> table]
        ELSE IF ins.code # ""
        THEN [err |-> InsertErr(ins), balances |-> bal, txs |-> table]
        ELSE [err |-> ErrNil, balances |-> upd.table,
              txs |-> (ins.row.tx_id :> ins.row) @@ table]

\* CancelTxs run alone on committed tables: its result and the tables it leaves.
SerialCancelTxs(bal, table, balance_id, tx_ids, now) ==
    LET ids == TxsByID(table, balance_id, tx_ids)
        upd == UpdateBalance(bal, balance_id, CancelChange(table, ids))
        del == DeleteTxs(table, balance_id, tx_ids)
    IN  IF ids = {}
        THEN [err |-> ErrNotFound, balances |-> bal, txs |-> table]
        ELSE IF UpdateErr(upd) # ErrNil
        THEN [err |-> UpdateErr(upd), balances |-> bal, txs |-> table]
        ELSE [err |-> ErrNil, balances |-> upd.table,
              txs |-> [t \in DOMAIN table |->
                        IF t \in del THEN [table[t] EXCEPT !.deleted_at = now]
                        ELSE table[t]]]

\* Worker p's call run alone on the committed tables of the current state.
Serial(p) ==
    IF call[p].op = "RecordTx"
    THEN SerialRecordTx(balances, txs, call[p].tx, pgxTx[p].now)
    ELSE SerialCancelTxs(balances, txs, call[p].balance_id, call[p].tx_ids, pgxTx[p].now)

\* The committed rows of account b.
RowsOfAccount(table, b) == {table[t] : t \in {u \in DOMAIN table : table[u].balance_id = b}}

\* C31: the committed outcome of concurrent RecordTx and CancelTxs calls on one
\* account is that of running them one at a time in the order they took the
\* account's lock: from a call's lock acquisition to its return no other call
\* changes the account's balance or rows, its commit (its reply lost or not)
\* leaves the tables the call run alone would leave, and the error it returns is
\* the one the call run alone would return (connection failures aside).
C31_SerialInLockOrder ==
    [][\A p \in Procs :
        (call[p].op \in {"RecordTx", "CancelTxs"} /\ pc[p] \in Statements)
        => LET b == call[p].balance_id
           IN  /\ pc'[p] = pc[p]
                    => /\ b \in DOMAIN balances => balances'[b] = balances[b]
                       /\ RowsOfAccount(txs', b) = RowsOfAccount(txs, b)
               /\ (pc'[p] = "exit" /\ err'[p] = ErrNil)
                    => /\ pc[p] = "commit"
                       /\ Serial(p).err = ErrNil
                       /\ balances' = Serial(p).balances
                       /\ txs' = Serial(p).txs
               /\ (pc'[p] = "exit" /\ err'[p] = ErrOther)
                    => \/ balances' = balances /\ txs' = txs
                       \/ /\ pc[p] = "commit"
                          /\ Serial(p).err = ErrNil
                          /\ balances' = Serial(p).balances
                          /\ txs' = Serial(p).txs
               /\ (pc'[p] = "exit" /\ err'[p] \notin {ErrNil, ErrOther})
                    => /\ Serial(p).err = err'[p]
                       /\ balances' = balances /\ txs' = txs]_vars

\* A CancelTxs cancelled a row recorded by a call that began after it: the later
\* call took the account's lock first.
C31_Witness ==
    \E q \in Procs :
        /\ AtExit(q, "CancelTxs") /\ err[q] = ErrNil
        /\ \E t \in call[q].tx_ids :
                /\ t \in DOMAIN txs
                /\ txs[t].balance_id = call[q].balance_id
                /\ txs[t].created_at > pgxTx[q].now
                /\ txs[t].deleted_at = pgxTx[q].now

\* C32: a step of a RecordTx or CancelTxs on an account, whether the call
\* succeeds or fails, leaves the balance row and every tx row of every other
\* account as they were, and adds no row to another account.
C32_OtherAccountsUntouched ==
    [][\A p \in Procs :
        (call[p].op \in {"RecordTx", "CancelTxs"} /\ pc'[p] # pc[p])
        => LET a == call[p].balance_id
           IN  /\ DOMAIN balances' = DOMAIN balances
               /\ \A b \in DOMAIN balances : b # a => balances'[b] = balances[b]
               /\ \A t \in DOMAIN txs :
                    txs[t].balance_id # a => t \in DOMAIN txs' /\ txs'[t] = txs[t]
               /\ \A t \in DOMAIN txs' \ DOMAIN txs : txs'[t].balance_id = a]_vars

\* A CancelTxs committed whose batch named a row of its account and a row
\* recorded under another account: the other account's row is still active.
C32_Witness ==
    \E p \in Procs :
        /\ AtExit(p, "CancelTxs") /\ err[p] = ErrNil
        /\ \E t, u \in call[p].tx_ids \cap DOMAIN txs :
                /\ txs[t].balance_id = call[p].balance_id
                /\ txs[t].deleted_at = pgxTx[p].now
                /\ txs[u].balance_id # call[p].balance_id
                /\ txs[u].balance_id \in DOMAIN balances
                /\ txs[u].deleted_at = Null

\* C33: in every committed state the account id of each tx row refers to an
\* existing balance row.
C33_RowsOfOpenedAccounts ==
    \A t \in DOMAIN txs : txs[t].balance_id \in DOMAIN balances

\* A RecordTx on an account that was never opened was rejected and left no row,
\* while a row of an opened account is recorded.
C33_Witness ==
    \E p \in Procs :
        /\ AtExit(p, "RecordTx") /\ err[p] = ErrNotFound
        /\ call[p].balance_id \notin DOMAIN balances
        /\ call[p].tx.tx_id \notin DOMAIN txs
        /\ DOMAIN txs # {}

\* A call in progress goes on whenever it can: its next statement, or its return;
\* the server ends the session of a dropped connection.
Proceed(p) == (Step(p) \/ Exit(p) \/ Abort(p)) /\ UNCHANGED serviceVars

\* Concurrent workers under fair scheduling, the lock keys of the accounts
\* distinct or colliding: a call that can go on eventually does.  New calls need
\* not arrive and connections need not break.
LiveSpec == HashInit /\ [][HashNext]_vars /\ \A p \in Procs : WF_vars(Proceed(p))

\* C34: under fair scheduling every RecordTx and CancelTxs call eventually
\* returns: the waits on the account locks and on the tx-id uniqueness check
\* never form a deadlock.
C34_EveryCallReturns ==
    \A p \in Procs : ~Returned(p) ~> Returned(p)

\* Two calls on different accounts hold their locks, and the RecordTx waits at
\* its insert for the CancelTxs, which has marked the row with that tx id and not
\* yet committed.
C34_Witness ==
    \E p, q \in Procs :
        /\ p # q
        /\ call[p].op = "RecordTx" /\ call[q].op = "CancelTxs"
        /\ call[p].balance_id # call[q].balance_id
        /\ HoldsLock(p) /\ HoldsLock(q)
        /\ pc[p] = "insert" /\ pc[q] = "commit"
        /\ call[p].tx.tx_id \in pgxTx[q].del
        /\ Blocked(p)

====
